---- MODULE Spec2Model ----
(***************************************************************************)
(* Crash-recovery simulator (src/main.c): a work loop that increments a    *)
(* counter, saves the whole ProcessState to checkpoint.dat every 10 work   *)
(* units, and restores it at startup.                                      *)
(*                                                                         *)
(* The model follows main.c system call by system call, so that signals,   *)
(* process crashes and machine crashes can fall between any two of them.   *)
(* Storage has two layers: `file` is what the operating system shows to    *)
(* open/read/write (the page cache view), `disk` is what survives a        *)
(* machine crash.  fsync copies file to disk; the kernel may also write    *)
(* back any prefix of the file on its own.                                 *)
(*                                                                         *)
(* Scaling: a long is LongBytes bytes (8 in the build) and the payload is  *)
(* DataSize bytes (1024 in the build); bytes are 0..255, the record is     *)
(* stored little-endian, two's complement, as the in-memory image.         *)
(***************************************************************************)
EXTENDS Integers, Sequences, FiniteSets, TLC

\* ---------------------------------------------------------------- bounds
LongBytes == 2
DataSize == 2
MaxCounter == 25
HighWindow == 12

\* ------------------------------------------------------ program constants
K == 10
CharA == 65

Byte == 0..255

RECURSIVE Pow256(_)
Pow256(n) == IF n = 0 THEN 1 ELSE 256 * Pow256(n - 1)

LONG_MAX == (Pow256(LongBytes) \div 2) - 1
LONG_MIN == -(Pow256(LongBytes) \div 2)

\* sizeof(struct ProcessState): the long followed by the payload, no padding
RecLen == LongBytes + DataSize

\* ------------------------------------------------------------ ProcessState
ZeroData == [i \in 1..DataSize |-> 0]

ProcessState(c, d) == [update_counter |-> c, data |-> d]

ZeroState == ProcessState(0, ZeroData)

\* The in-memory image of a long: two's complement, least significant byte first.
LongToBytes(c) ==
    LET u == IF c < 0 THEN c + Pow256(LongBytes) ELSE c
    IN  [i \in 1..LongBytes |-> (u \div Pow256(i - 1)) % 256]

RECURSIVE BytesToNat(_)
BytesToNat(b) ==
    IF Len(b) = 0 THEN 0 ELSE Head(b) + 256 * BytesToNat(Tail(b))

BytesToLong(b) ==
    LET u == BytesToNat(b)
    IN  IF u > LONG_MAX THEN u - Pow256(LongBytes) ELSE u

\* write(fd, state, sizeof ...) sends these bytes; read(fd, state, ...) fills them.
Serialize(s) == LongToBytes(s.update_counter) \o s.data

Deserialize(b) ==
    ProcessState(BytesToLong(SubSeq(b, 1, LongBytes)),
                 SubSeq(b, LongBytes + 1, RecLen))

Prefix(b, n) == SubSeq(b, 1, n)

\* ------------------------------------------------------------ file system
NoFile == <<-1>>

Exists(f) == f # NoFile

\* An uninitialised struct ProcessState on main's stack: some bytes.
JunkStates ==
    { ZeroState, ProcessState(-1, [i \in 1..DataSize |-> 255]) }

None == [update_counter |-> 0, data |-> <<>>]

Dead == {"exited", "crashed"}

VARIABLES
    pc,          \* where the process is: "load_open", "load_read", "work",
                 \* "check", "save_open", "save_write", "save_fsync",
                 \* "save_close", or dead: "exited" (exit()), "crashed" (killed)
    state,       \* main's struct ProcessState
    file,        \* checkpoint.dat as the operating system shows it
    disk,        \* checkpoint.dat as it is on stable storage
    exitCode,    \* the status passed to exit(), -1 while none
    outcome,     \* this run's load_checkpoint result: "none", "ColdStart",
                 \* "Restored", "Fatal"
    restored,    \* the state load_checkpoint handed to main in this run
    loadFault,   \* a file-system error met by this run's load: "no", "open"
                 \* (the file exists and open failed), "read" (read gave -1)
    fileAtLoad,  \* length of the file that this run's load opened, -1 when
                 \* there was no file, -2 when nothing was opened (before the
                 \* open, and after an open that failed on an existing file)
    unitsRun,    \* work units completed in this run
    saveLog,     \* counters with which save_checkpoint was called in this run
    saveResult,  \* outcome of the latest save_checkpoint call: "none" (running),
                 \* "OpenError", "WriteError", "Saved"
    fsynced,     \* the latest save_checkpoint call has issued its fsync
    saved,       \* every state passed to save_checkpoint so far
    written,     \* every state whose write() completed in full so far
    lastSuccess, \* state of the last save that printed success, or None
    since,       \* what happened since that success: "none" (no success yet),
                 \* "saved", "ended" (exit by signal), "crashed" (process
                 \* killed), "dirty" (a later save began or the machine crashed)
    laterRun,    \* the current run started after lastSuccess was reported
    priorFile,   \* the file as it was when a save opened it, kept from the
                 \* open to the end of write and after a crash between them
    window,      \* "no"; "crashed": a crash fell between open/truncate and the
                 \* end of write; "pending": a run started after such a crash,
                 \* no load has completed since, or this run's load has and
                 \* no work unit has run yet
    out,         \* what the function the process is in, or has last left,
                 \* has printed since it was entered: load_checkpoint, then
                 \* each save_checkpoint
    sigSave,     \* "no"; "hit": the signal ended the process between a
                 \* save's open/truncate and the end of its write; "pending":
                 \* a run started after that, the machine stayed up, every
                 \* load since could open the file, and none has completed
                 \* before this run's
    wfail,       \* "no"; "failed": a save failed at write, and the machine
                 \* has stayed up since; "rewritten": a later write has put a
                 \* whole record in the file and its save has not returned;
                 \* "failed_later", "rewritten_later": the same, during the
                 \* startup of a later run (dropped when load_checkpoint
                 \* cannot open the file, and at the first work unit)
    fatalKind    \* "no"; how an earlier startup ended Fatal while the
                 \* machine stayed up and every load since could open the
                 \* file: "short" (the file was shorter than a record),
                 \* "short_again" (so did the startup before it), "io" (read
                 \* failed on a whole file); dropped at the first work unit

vars == << pc, state, file, disk, exitCode, outcome, restored, loadFault,
           fileAtLoad, unitsRun, saveLog, saveResult, fsynced, saved, written,
           lastSuccess, since, laterRun, priorFile, window, out, sigSave,
           wfail, fatalKind >>

\* ---------------------------------------------------------------- reports
\* The lines the program prints, by their first words.
MsgSaving == "Saving checkpoint"
MsgOpenFailed == "Failed to open checkpoint file"
MsgWriteFailed == "Failed to write checkpoint"
MsgSaved == "Checkpoint saved successfully"
MsgLoading == "Attempting to load checkpoint"
MsgNone == "No checkpoint found"
MsgCorrupted == "Failed to read checkpoint or file corrupted"
MsgRestored == "State restored successfully"

\* -------------------------------------------------------------------- Init
InitWith(f) ==
    /\ pc = "load_open"
    /\ state \in JunkStates
    /\ file = f
    /\ disk = f
    /\ exitCode = -1
    /\ outcome = "none"
    /\ restored = None
    /\ loadFault = "no"
    /\ fileAtLoad = -2
    /\ unitsRun = 0
    /\ saveLog = <<>>
    /\ saveResult = "none"
    /\ fsynced = FALSE
    /\ saved = {}
    /\ written = {}
    /\ lastSuccess = None
    /\ since = "none"
    /\ laterRun = FALSE
    /\ priorFile = NoFile
    /\ window = "no"
    /\ out = << >>
    /\ sigSave = "no"
    /\ wfail = "no"
    /\ fatalKind = "no"

\* The program's first start: no checkpoint.dat yet.
Init == InitWith(NoFile)

\* ----------------------------------------------------------- the process
Min(a, b) == IF a < b THEN a ELSE b

Max(a, b) == IF a > b THEN a ELSE b

\* pwrite-at-offset-0 semantics of the first write on a fresh descriptor:
\* the bytes replace the head of the file, a longer tail stays.
FileWrite(f, bytes) == bytes \o SubSeq(f, Len(bytes) + 1, Len(f))

\* read(fd, state, sizeof(struct ProcessState)) of n bytes into the struct:
\* the first n bytes of the image are replaced, the rest is left as it was.
ReadInto(s, f, n) ==
    IF n <= 0 THEN s
    ELSE Deserialize(Prefix(f, n) \o SubSeq(Serialize(s), n + 1, RecLen))

\* load_checkpoint, open(CHECKPOINT_FILE, O_RDONLY): the results open can
\* have.  A missing file always fails (ENOENT); an existing file opens, or
\* fails for another reason (EACCES, EMFILE, ENFILE, EIO ...).
LoadOpenResults(f) == IF Exists(f) THEN {TRUE, FALSE} ELSE {FALSE}

\* A cold start that clears the payload and leaves the counter as it was.
ColdStateCounterKept(s) == [s EXCEPT !.data = ZeroData]

\* load_checkpoint, the state written on the fd == -1 branch.
ColdState(s) == [s EXCEPT !.update_counter = 0, !.data = ZeroData]

\* load_checkpoint, what read can return: the bytes available up to the
\* requested size, or -1 (EIO).
ReadResults(f) == { Min(Len(f), RecLen), -1 }

\* A test that takes any count read, short or not, for a full record.
ReadOkAnyCount(n) == n >= 0

\* A test that only rejects an empty or failed read.
ReadOkNonEmpty(n) == n > 0

\* load_checkpoint, the test on read's return value (negated in the code).
ReadOk(n) == n = RecLen

\* A failed-read branch that reports the error and returns to main.
ReadFailedReturns == "work"

\* load_checkpoint, where the failed-read branch ends: exit(1).
ReadFailedPc == "exited"

\* save_checkpoint, what write can return: -1, or a count up to the size.
WriteResults == -1 .. RecLen

\* A test that takes any count but the error value for a full write.
WriteOkNotError(n) == n # -1

\* save_checkpoint, the test on write's return value (negated in the code).
WriteOk(n) == n = RecLen

\* An open without O_TRUNC: the old bytes stay until they are overwritten.
OpenedNoTrunc(f) == IF Exists(f) THEN f ELSE << >>

\* save_checkpoint, the file right after open(O_WRONLY | O_CREAT | O_TRUNC).
OpenedForWrite(f) == << >>

\* A save that closes the file right after the write, with no fsync.
AfterWriteNoSync == "save_close"

\* save_checkpoint after a full write: on to fsync(fd).
AfterWrite == "save_fsync"

\* An error branch that tries the save again at once.
AfterSaveErrorRetry == "save_open"

\* An error branch without its return: the function falls through to the
\* rest of its body.
AfterSaveErrorFallsThrough == "save_fsync"

\* Where save_checkpoint's error branches hand control: return to main's loop.
AfterSaveError == "work"

\* main, state.update_counter++ on a long.  Signed overflow is undefined:
\* the build may wrap to LONG_MIN; a trapping build is the Crash action.
Increment(c) == IF c = LONG_MAX THEN {LONG_MIN} ELSE {c + 1}

\* main, one unit of work on the state.
Advance(s, c) == [s EXCEPT !.update_counter = c, !.data[1] = CharA]

\* C's % on longs truncates towards zero.
CRem(a, b) == IF a >= 0 THEN a % b ELSE -((-a) % b)

\* A cadence test that fires one work unit early.
CadenceDueEarly(c) == CRem(c + 1, K) = 0

\* A cadence test that fires every second multiple of K only.
CadenceDueSparse(c) == CRem(c, 2 * K) = 0

\* main, the cadence test.
CadenceDue(c) == CRem(c, K) = 0

\* The model stops the work loop outside these counters: a window around
\* zero, and the last HighWindow values below LONG_MAX with LONG_MAX itself.
CanWork(c) ==
    \/ c >= -MaxCounter /\ c < MaxCounter
    \/ c >= LONG_MAX - HighWindow

SinceDirty == IF since = "none" THEN "none" ELSE "dirty"

\* ------------------------------------------------------- load_checkpoint
\* An open that creates the file when there is none.
FileAfterLoadCreated(f) == IF Exists(f) THEN f ELSE << >>

\* load_checkpoint, the file after open(O_RDONLY), read and close.
FileAfterLoad(f) == f

LoadOpen ==
    /\ pc = "load_open"
    /\ \E ok \in LoadOpenResults(file) :
         IF ok
         THEN /\ pc' = "load_read"
              /\ out' = << MsgLoading >>
              /\ UNCHANGED << state, outcome, restored, loadFault, sigSave,
                              wfail, fatalKind >>
         ELSE /\ state' = ColdState(state)
              /\ outcome' = "ColdStart"
              /\ out' = << MsgLoading, MsgNone >>
              /\ restored' = state'
              /\ loadFault' = IF Exists(file) THEN "open" ELSE "no"
              /\ sigSave' = IF Exists(file) THEN "no" ELSE sigSave
              /\ wfail' = IF Exists(file) THEN "no" ELSE wfail
              /\ fatalKind' = IF Exists(file) THEN "no" ELSE fatalKind
              /\ pc' = "work"
    /\ fileAtLoad' = IF pc' = "load_read" THEN Len(file)
                      ELSE IF Exists(file) THEN -2 ELSE -1
    /\ file' = FileAfterLoad(file)
    /\ UNCHANGED << disk, exitCode, unitsRun, saveLog, saveResult, fsynced,
                    saved, written, lastSuccess, since, laterRun, priorFile,
                    window >>

LoadRead ==
    /\ pc = "load_read"
    /\ \E n \in ReadResults(file) :
         /\ state' = ReadInto(state, file, n)
         /\ loadFault' = IF n = -1 THEN "read" ELSE "no"
         /\ IF ReadOk(n)
            THEN /\ outcome' = "Restored"
                 /\ out' = Append(out, MsgRestored)
                 /\ restored' = state'
                 /\ UNCHANGED fatalKind
                 /\ pc' = "work"
                 /\ UNCHANGED exitCode
            ELSE /\ outcome' = "Fatal"
                 /\ out' = Append(out, MsgCorrupted)
                 /\ fatalKind' =
                       CASE Len(file) >= RecLen -> "io"
                         [] fatalKind \in {"short", "short_again"}
                              -> "short_again"
                         [] OTHER -> "short"
                 /\ pc' = ReadFailedPc
                 /\ exitCode' = IF pc' = "exited" THEN 1 ELSE exitCode
                 /\ UNCHANGED restored
    /\ file' = FileAfterLoad(file)
    /\ UNCHANGED << disk, fileAtLoad, unitsRun, saveLog, saveResult,
                    fsynced, saved, written, lastSuccess, since, laterRun,
                    priorFile, window, sigSave, wfail >>

\* ------------------------------------------------------------ main's loop
Work ==
    /\ pc = "work"
    /\ CanWork(state.update_counter)
    /\ \E c \in Increment(state.update_counter) : state' = Advance(state, c)
    /\ unitsRun' = unitsRun + 1
    /\ wfail' = IF wfail \in {"failed", "rewritten"} THEN wfail ELSE "no"
    /\ fatalKind' = "no"
    /\ window' = "no"
    /\ priorFile' = NoFile
    /\ pc' = "check"
    /\ UNCHANGED << file, disk, exitCode, outcome, restored, loadFault,
                    fileAtLoad, saveLog, saveResult, fsynced, saved, written,
                    lastSuccess, since, laterRun, out, sigSave >>

\* The cadence test, and on a hit the entry of save_checkpoint (its first
\* printf); otherwise sleep(1) and the next iteration.
Check ==
    /\ pc = "check"
    /\ IF CadenceDue(state.update_counter)
       THEN /\ pc' = "save_open"
            /\ out' = << MsgSaving >>
            /\ saveLog' = Append(saveLog, state.update_counter)
            /\ saved' = saved \cup {state}
            /\ saveResult' = "none"
            /\ fsynced' = FALSE
            /\ since' = SinceDirty
       ELSE /\ pc' = "work"
            /\ UNCHANGED << out, saveLog, saved, saveResult, fsynced, since >>
    /\ UNCHANGED << state, file, disk, exitCode, outcome, restored, loadFault,
                    fileAtLoad, unitsRun, written, lastSuccess, laterRun,
                    priorFile, window, sigSave, wfail, fatalKind >>

\* ------------------------------------------------------- save_checkpoint
SaveOpen ==
    /\ pc = "save_open"
    /\ \E ok \in BOOLEAN :
         IF ok
         THEN /\ file' = OpenedForWrite(file)
              /\ priorFile' = file
              /\ pc' = "save_write"
              /\ UNCHANGED << saveResult, out >>
         ELSE /\ saveResult' = "OpenError"
              /\ out' = Append(out, MsgOpenFailed)
              /\ pc' = AfterSaveError
              /\ UNCHANGED << file, priorFile >>
    /\ UNCHANGED << state, disk, exitCode, outcome, restored, loadFault,
                    fileAtLoad, unitsRun, saveLog, fsynced, saved, written,
                    lastSuccess, since, laterRun, window, sigSave,
                    wfail, fatalKind >>

SaveWrite ==
    /\ pc = "save_write"
    /\ \E n \in WriteResults :
         /\ file' = FileWrite(file, Prefix(Serialize(state), Max(n, 0)))
         /\ written' = IF n = RecLen THEN written \cup {state} ELSE written
         /\ priorFile' = NoFile
         /\ IF WriteOk(n)
            THEN /\ pc' = AfterWrite
                 /\ wfail' = IF wfail = "no" THEN "no" ELSE "rewritten"
                 /\ UNCHANGED << saveResult, out >>
            ELSE /\ saveResult' = "WriteError"
                 /\ wfail' = "failed"
                 /\ out' = Append(out, MsgWriteFailed)
                 /\ pc' = AfterSaveError
    /\ UNCHANGED << state, disk, exitCode, outcome, restored, loadFault,
                    fileAtLoad, unitsRun, saveLog, fsynced, saved, lastSuccess,
                    since, laterRun, window, sigSave, fatalKind >>

\* fsync(fd): its result is not looked at.  When it fails the disk keeps
\* what it had.
SaveFsync ==
    /\ pc = "save_fsync"
    /\ \E ok \in BOOLEAN : disk' = IF ok THEN file ELSE disk
    /\ fsynced' = TRUE
    /\ pc' = "save_close"
    /\ UNCHANGED << state, file, exitCode, outcome, restored, loadFault,
                    fileAtLoad, unitsRun, saveLog, saveResult, saved, written,
                    lastSuccess, since, laterRun, priorFile, window,
                    out, sigSave, wfail, fatalKind >>

\* close(fd) and the success report; back to main's loop.
SaveClose ==
    /\ pc = "save_close"
    /\ out' = Append(out, MsgSaved)
    /\ saveResult' = "Saved"
    /\ wfail' = "no"
    /\ lastSuccess' = state
    /\ since' = "saved"
    /\ laterRun' = FALSE
    /\ pc' = "work"
    /\ UNCHANGED << state, file, disk, exitCode, outcome, restored, loadFault,
                    fileAtLoad, unitsRun, saveLog, fsynced, saved, written,
                    priorFile, window, sigSave, fatalKind >>

\* ------------------------------------------------------------ environment
\* SIGINT: handle_exit runs wherever the process is and calls exit(0).
Signal ==
    /\ pc \notin Dead
    /\ pc' = "exited"
    /\ exitCode' = 0
    /\ sigSave' = IF pc = "save_write" THEN "hit" ELSE sigSave
    /\ since' = IF since = "saved" THEN "ended" ELSE since
    /\ UNCHANGED << state, file, disk, outcome, restored, loadFault,
                    fileAtLoad, unitsRun, saveLog, saveResult, fsynced, saved,
                    written, lastSuccess, laterRun, priorFile, window, out,
                    wfail, fatalKind >>

\* The process is killed (SIGKILL, a fault).  Killed inside write, a part of
\* the record short of the whole may already be in the file.
Crash ==
    /\ pc \notin Dead
    /\ pc' = "crashed"
    /\ IF pc = "save_write"
       THEN /\ \E n \in 0 .. RecLen - 1 :
                 file' = FileWrite(file, Prefix(Serialize(state), n))
            /\ window' = "crashed"
       ELSE UNCHANGED << file, window >>
    /\ since' = IF since \in {"saved", "ended"} THEN "crashed" ELSE since
    /\ UNCHANGED << state, disk, exitCode, outcome, restored, loadFault,
                    fileAtLoad, unitsRun, saveLog, saveResult, fsynced, saved,
                    written, lastSuccess, laterRun, priorFile, out, sigSave,
                    wfail, fatalKind >>

\* Power loss or kernel panic: what was not on disk is gone.
MachineCrash ==
    /\ pc \notin Dead \/ file # disk
    /\ file' = disk
    /\ pc' = IF pc \in Dead THEN pc ELSE "crashed"
    /\ sigSave' = "no"
    /\ wfail' = "no"
    /\ fatalKind' = "no"
    /\ window' = IF pc = "save_write" THEN "crashed" ELSE window
    /\ since' = SinceDirty
    /\ UNCHANGED << state, disk, exitCode, outcome, restored, loadFault,
                    fileAtLoad, unitsRun, saveLog, saveResult, fsynced, saved,
                    written, lastSuccess, laterRun, priorFile, out >>

\* The kernel writes dirty data back on its own, front to back.
Writeback ==
    /\ Exists(file)
    /\ file # disk
    /\ \E n \in 0 .. Len(file) :
         /\ Prefix(file, n) # disk
         /\ disk' = Prefix(file, n)
    /\ UNCHANGED << pc, state, file, exitCode, outcome, restored, loadFault,
                    fileAtLoad, unitsRun, saveLog, saveResult, fsynced, saved,
                    written, lastSuccess, since, laterRun, priorFile, window,
                    out, sigSave, wfail, fatalKind >>

\* The operator starts the program again: main from the top.
Restart ==
    /\ pc \in Dead
    /\ pc' = "load_open"
    /\ state' \in JunkStates
    /\ exitCode' = -1
    /\ outcome' = "none"
    /\ restored' = None
    /\ loadFault' = "no"
    /\ fileAtLoad' = -2
    /\ unitsRun' = 0
    /\ saveLog' = <<>>
    /\ saveResult' = "none"
    /\ fsynced' = FALSE
    /\ laterRun' = (lastSuccess # None)
    /\ out' = << >>
    /\ sigSave' = CASE sigSave = "hit" -> "pending"
                    [] sigSave = "pending" /\ outcome # "none" -> "no"
                    [] OTHER -> sigSave
    /\ wfail' = CASE wfail = "failed" -> "failed_later"
                  [] wfail = "rewritten" -> "rewritten_later"
                  [] OTHER -> wfail
    /\ window' = CASE window = "crashed" -> "pending"
                   [] window = "pending" /\ outcome # "none" -> "no"
                   [] OTHER -> window
    /\ priorFile' = IF window' = "no" THEN NoFile ELSE priorFile
    /\ UNCHANGED << file, disk, saved, written, lastSuccess, since,
                    fatalKind >>

Next ==
    \/ LoadOpen
    \/ LoadRead
    \/ Work
    \/ Check
    \/ SaveOpen
    \/ SaveWrite
    \/ SaveFsync
    \/ SaveClose
    \/ Signal
    \/ Crash
    \/ MachineCrash
    \/ Writeback
    \/ Restart

Spec == Init /\ [][Next]_vars

\* save_checkpoint(&s) followed by load_checkpoint in a later process, for
\* states s the work loop itself would take long to reach.  The process is
\* at the call of save_checkpoint; after the save and after the load it does
\* no work, the environment (signals, crashes, restarts, write-back) is as in
\* Spec.
PayloadB == [i \in 1..DataSize |-> 65 + i]

PayloadFF == [i \in 1..DataSize |-> 255]

TestCounters == { LONG_MIN, -1, 0, K - 3, 255, 256, LONG_MAX }

TestStates ==
    { ProcessState(c, d) : c \in TestCounters,
                           d \in { ZeroData, PayloadB, PayloadFF } }

TestFiles == { NoFile, Serialize(ProcessState(K, PayloadB)) }

InitRT ==
    /\ pc = "save_open"
    /\ state \in TestStates
    /\ file \in TestFiles
    /\ disk = file
    /\ exitCode = -1
    /\ outcome = "none"
    /\ restored = None
    /\ loadFault = "no"
    /\ fileAtLoad = -2
    /\ unitsRun = 0
    /\ saveLog = << state.update_counter >>
    /\ saveResult = "none"
    /\ fsynced = FALSE
    /\ saved = {state}
    /\ written = {}
    /\ lastSuccess = None
    /\ since = "none"
    /\ laterRun = FALSE
    /\ priorFile = NoFile
    /\ window = "no"
    /\ out = << MsgSaving >>
    /\ sigSave = "no"
    /\ wfail = "no"
    /\ fatalKind = "no"

NextRT ==
    \/ SaveOpen
    \/ SaveWrite
    \/ SaveFsync
    \/ SaveClose
    \/ Signal
    \/ Crash
    \/ MachineCrash
    \/ Writeback
    \/ Restart
    \/ LoadOpen
    \/ LoadRead

SpecRT == InitRT /\ [][NextRT]_vars

\* ------------------------------------------ runs near the top of the long
\* Counters a full-length checkpoint.dat can hold just below the largest
\* long, and the largest itself.
HighCounters == {LONG_MAX - HighWindow, LONG_MAX}

\* The program starts on a full-length file that holds such a counter.
InitHigh ==
    \E c \in HighCounters : InitWith(Serialize(ProcessState(c, ZeroData)))

\* The program's steps, the signal and the restart; no kill, no power loss.
NextHigh ==
    \/ LoadOpen
    \/ LoadRead
    \/ Work
    \/ Check
    \/ SaveOpen
    \/ SaveWrite
    \/ SaveFsync
    \/ SaveClose
    \/ Signal
    \/ Restart

SpecHigh == InitHigh /\ [][NextHigh]_vars

\* ------------------------------------------------------------------ C1
\* C1 (round trip): when a save of state s has printed success, the process
\* then ends by the termination signal with no crash and no further save
\* begun, and a later run's load meets no open or read error, that load ends
\* Restored with a state equal to s in the counter and in every payload byte.
RoundTrip ==
    (outcome # "none" /\ laterRun /\ since = "ended" /\ loadFault = "no")
        => (outcome = "Restored" /\ restored = lastSuccess)

\* A load after a clean save that restored a payload other than the one a
\* cold start produces.
RoundTripWitness ==
    /\ outcome = "Restored" /\ laterRun /\ since = "ended" /\ loadFault = "no"
    /\ restored = lastSuccess
    /\ restored = ProcessState(LONG_MIN, PayloadFF)

\* ------------------------------------------------------------------ C2
\* A load has ended in a run that started after a crash in the window, and
\* no load had ended between the two.
NextLoadAfterWindowCrash == window = "pending" /\ outcome # "none"

\* C2 as stated (crash window): after a process or machine crash between
\* save_checkpoint's open/truncate and the end of its write, the next load
\* ends Fatal or restores the checkpoint the file held before that save.
\* (Stated for loads whose open did not fail on an existing file.)
CrashWindowAsStated ==
    (NextLoadAfterWindowCrash /\ loadFault # "open") =>
        \/ outcome = "Fatal"
        \/ /\ outcome = "Restored"
           /\ Exists(priorFile)
           /\ Len(priorFile) >= RecLen
           /\ restored = Deserialize(priorFile)

\* C2 amended: after such a crash the next load ends Fatal, or Restored with
\* a state that an earlier save had written in full, or ColdStart with the
\* zero state (no file was left, or it could not be opened); a load that
\* ends Restored never hands back a partly written record.
CrashWindow ==
    NextLoadAfterWindowCrash =>
        \/ outcome = "Fatal"
        \/ outcome = "Restored" /\ restored \in written
        \/ outcome = "ColdStart" /\ restored = ZeroState

\* A process killed inside write left part of a record, where a full
\* checkpoint had been reported before; the next load ended Fatal.
CrashWindowWitness ==
    /\ NextLoadAfterWindowCrash
    /\ outcome = "Fatal"
    /\ loadFault = "no"
    /\ fileAtLoad > 0
    /\ fileAtLoad < RecLen
    /\ lastSuccess # None

\* ------------------------------------------------------------------ C3
\* C3 (snapshot integrity): in every reachable state, over all work units,
\* saves, failed saves, crashes, signals and restarts, a load that ended
\* Restored handed main a state equal, counter and every payload byte, to a
\* state that had been passed to save_checkpoint.
SnapshotIntegrity ==
    outcome = "Restored" => restored \in saved

\* A restore in a run that follows at least two saves and a failed save.
SnapshotIntegrityWitness ==
    /\ outcome = "Restored"
    /\ restored \in saved
    /\ Cardinality(saved) >= 2
    /\ restored.update_counter = 2 * K

\* ------------------------------------------------------------------ C4
\* C4 (durability ordering): a save that has printed success has issued its
\* fsync before; and when, after a save of s printed success, the process is
\* killed at some point before another save begins (and the machine stays
\* up), a later run's load that meets no open or read error ends Restored
\* with s.
DurabilityOrdering ==
    /\ saveResult = "Saved" => fsynced
    /\ (outcome # "none" /\ laterRun /\ since = "crashed" /\ loadFault = "no")
           => (outcome = "Restored" /\ restored = lastSuccess)

\* The second checkpoint was reported, the process was killed, and the next
\* run restored it.
DurabilityOrderingWitness ==
    /\ outcome = "Restored" /\ laterRun /\ since = "crashed" /\ loadFault = "no"
    /\ restored = lastSuccess
    /\ restored.update_counter = 2 * K
    /\ pc = "work"

\* ------------------------------------------------------------------ C5
\* C5 (corruption detection): when the file that load_checkpoint opened held
\* fewer bytes than one record (zero included), the load ended Fatal, the
\* process is gone with exit status 1, and that run did no work unit and
\* called no save.
CorruptionDetection ==
    (outcome # "none" /\ fileAtLoad >= 0 /\ fileAtLoad < RecLen)
        => /\ outcome = "Fatal"
           /\ pc = "exited"
           /\ exitCode = 1
           /\ unitsRun = 0
           /\ saveLog = << >>

\* A load of a file that holds a part of a record, not an empty one.
CorruptionDetectionWitness ==
    /\ outcome = "Fatal"
    /\ fileAtLoad > 0
    /\ fileAtLoad < RecLen
    /\ loadFault = "no"
    /\ exitCode = 1

\* ------------------------------------------------------------------ C6
\* C6 (cold start): when there was no checkpoint file at startup, the load
\* ended ColdStart with counter 0 and every payload byte 0, and the work loop
\* starts from that state: before the first work unit the state is the zero
\* state, and the counter equals the number of work units done in this run.
ColdStart ==
    (outcome # "none" /\ fileAtLoad = -1)
        => /\ outcome = "ColdStart"
           /\ restored = ZeroState
           /\ (unitsRun = 0 => state = ZeroState)
           /\ state.update_counter = unitsRun

\* A cold start with no file, three work units on.
ColdStartWitness ==
    /\ outcome = "ColdStart"
    /\ fileAtLoad = -1
    /\ restored = ZeroState
    /\ unitsRun = 3
    /\ state.update_counter = 3

\* ------------------------------------------------------------------ C7
\* The multiples of K above a and up to b, in increasing order.
RECURSIVE DueBetween(_, _)
DueBetween(a, b) ==
    IF b <= a THEN << >>
    ELSE IF CRem(b, K) = 0 THEN Append(DueBetween(a, b - 1), b)
    ELSE DueBetween(a, b - 1)

\* C7 (cadence): in every run that loaded a state, the calls of
\* save_checkpoint so far are exactly the multiples of K = 10 that the
\* counter has taken since the load, each once, in order, and the call for a
\* counter is made before the next work unit (while the test for the current
\* counter is still ahead, the calls are those for the counters before it).
\* From a cold start, after 25 work units the calls were at 10 and 20.
Cadence ==
    /\ outcome \in {"ColdStart", "Restored"} =>
          LET from == restored.update_counter
              c == state.update_counter
          IN  CASE pc = "check" -> saveLog = DueBetween(from, c - 1)
                [] pc \in Dead ->
                     saveLog \in { DueBetween(from, c - 1), DueBetween(from, c) }
                [] OTHER -> saveLog = DueBetween(from, c)
    /\ (outcome = "ColdStart" /\ unitsRun = 25 /\ pc = "work")
          => saveLog = << 10, 20 >>
    /\ pc \in {"save_open", "save_write", "save_fsync", "save_close"}
          => CRem(state.update_counter, K) = 0

\* 25 work units after a cold start, past the test for counter 25.
CadenceWitness ==
    /\ outcome = "ColdStart"
    /\ unitsRun = 25
    /\ pc = "work"
    /\ saveLog = << 10, 20 >>

\* ------------------------------------------------------------------ C8
\* C8 (monotonicity across restart), as stated: a load that ends Restored in
\* a run started after the last reported save hands back a counter no
\* smaller than that save's, and from the load on the counter grows by one
\* with every work unit.
MonotoneAcrossRestart ==
    /\ (outcome = "Restored" /\ laterRun)
          => restored.update_counter >= lastSuccess.update_counter
    /\ outcome = "Restored"
          => state.update_counter = restored.update_counter + unitsRun

\* ------------------------------------------------------------------ C9
SaveErrors == {"OpenError", "WriteError"}

\* C9 (save failures are recovered locally): the step in which
\* save_checkpoint fails at open or at write leaves the in-memory state and
\* the list of save calls as they were and returns to the work loop; while
\* that failure is the latest save outcome the process is not inside
\* save_checkpoint, and the next call of save_checkpoint is made for a
\* counter that is a multiple of K and larger than the failed one.
SaveFailureLocal ==
    /\ [][ (saveResult = "none" /\ saveResult' \in SaveErrors)
              => /\ state' = state
                 /\ saveLog' = saveLog
                 /\ pc' = "work" ]_vars
    /\ [][ (saveResult \in SaveErrors /\ pc' = "save_open")
              => /\ pc = "check"
                 /\ CRem(state.update_counter, K) = 0
                 /\ state.update_counter > saveLog[Len(saveLog)]
                 /\ saveLog' = Append(saveLog, state.update_counter) ]_vars
    /\ [](saveResult \in SaveErrors
              => pc \notin {"save_open", "save_write", "save_fsync", "save_close"})

\* After a save that failed at write at counter 10, the loop went on and the
\* save for counter 20 has started.
SaveFailureLocalWitness ==
    /\ saveLog = << K, 2 * K >>
    /\ pc = "save_open"
    /\ lastSuccess = None
    /\ written = {}
    /\ Exists(file)
    /\ Len(file) < RecLen
    /\ outcome = "ColdStart"

\* ----------------------------------------------------------------- C10
\* C10 (read errors at load are fatal), as stated: a load ends ColdStart
\* only when there was no checkpoint file; with a file that cannot be opened
\* or read in full the process ends instead of running from the zero state.
ColdStartOnlyWithoutFile ==
    /\ outcome = "ColdStart" => fileAtLoad = -1
    /\ (outcome # "none" /\ loadFault # "no") => (outcome = "Fatal" /\ pc \in Dead)

\* ----------------------------------------------------------------- C11
\* The termination signal arrives in a run whose load has completed.
SignalStep == Signal /\ outcome \in {"ColdStart", "Restored"}

\* A load of file f that meets no I/O error starts a run: f is absent or
\* holds a whole record.
Startable(f) == ~Exists(f) \/ Len(f) >= RecLen

\* The counter such a load starts the run from.
Covered(f) == IF Exists(f) THEN Deserialize(f).update_counter ELSE 0

\* Work units in memory that the file does not cover.
Uncovered == state.update_counter - Covered(file)

NonAtomicSaveAsStated ==
    [][(Crash /\ pc \in {"save_write", "save_fsync"})
         => (Exists(file') /\ Len(file') < RecLen)]_vars

\* C12 (non-atomic save): a process killed after the open/truncate and
\* before the end of the write leaves a file shorter than one record that
\* holds the first bytes of the new record and nothing of the previous
\* checkpoint; a process killed after the write and before fsync completed
\* leaves the whole new record in the file; a machine failure leaves in the
\* file what had reached the disk.
NonAtomicSave ==
    /\ [][(Crash /\ pc = "save_write")
            => /\ Exists(file')
               /\ Len(file') < RecLen
               /\ file' = Prefix(Serialize(state), Len(file'))]_vars
    /\ [][(Crash /\ pc = "save_fsync") => file' = Serialize(state)]_vars
    /\ [][MachineCrash => file' = disk]_vars

\* A process killed inside the write of a save that follows a successful
\* one: all but the last byte of the new record is in the file, and the
\* disk holds something else.
NonAtomicSaveWitness ==
    /\ pc = "crashed"
    /\ window = "crashed"
    /\ lastSuccess # None
    /\ Len(file) = RecLen - 1
    /\ file = Prefix(Serialize(state), RecLen - 1)
    /\ disk # file

\* ----------------------------------------------------------------- C13
\* C13 (the counter never decreases within a run): every work unit leaves
\* update_counter strictly greater than it found it, from every state the
\* load can produce, the largest long included.
CounterNeverDecreases ==
    [][Work => state'.update_counter > state.update_counter]_vars

\* ----------------------------------------------------------------- C14
InSave == pc \in {"save_open", "save_write", "save_fsync", "save_close"}

\* The latest save_checkpoint call of this run has returned to main's loop.
SaveReturned == saveLog # << >> /\ pc \in {"work", "check"}

SignalDuringSave ==
    /\ InSave => ENABLED Signal
    /\ sigSave = "hit" =>
          /\ pc = "exited"
          /\ exitCode = 0
          /\ Exists(file)
          /\ Len(file) < RecLen
    /\ (sigSave = "pending" /\ outcome # "none") =>
          /\ outcome = "Fatal"
          /\ pc = "exited"
          /\ exitCode = 1

\* The signal fell inside a save that followed a successful one, and the
\* next startup has ended Fatal.
SignalDuringSaveWitness ==
    /\ sigSave = "pending"
    /\ lastSuccess # None
    /\ outcome = "Fatal"
    /\ exitCode = 1
    /\ loadFault = "no"

\* ----------------------------------------------------------------- C16
\* C16 as stated (failed write): a restart that follows a save's write
\* failure and precedes the return of the next successful save ends Fatal.
\* (Stated for a machine that stays up and a load that opened the file.)
WriteFailureAsStated ==
    (wfail \in {"failed_later", "rewritten_later"} /\ outcome # "none")
        => outcome = "Fatal"

\* C16 (failed write): while the machine stays up, after a save failed at
\* write the file is shorter than one record until a later write puts a
\* whole record in it, and a restart before that, when its load opens the
\* file, ends Fatal with exit code 1.  A save that fails at open leaves the
\* file, and what is on disk, unchanged.
WriteFailureTruncates ==
    /\ [](wfail \in {"failed", "failed_later"}
             => (Exists(file) /\ Len(file) < RecLen))
    /\ []((wfail = "failed_later" /\ outcome # "none")
             => (outcome = "Fatal" /\ pc = "exited" /\ exitCode = 1))
    /\ [][(pc = "save_open" /\ saveResult' = "OpenError")
             => (file' = file /\ disk' = disk)]_vars

\* A save that followed a successful one failed at write, and the restart
\* after it has ended Fatal.
WriteFailureWitness ==
    /\ wfail = "failed_later"
    /\ lastSuccess # None
    /\ fileAtLoad >= 0
    /\ outcome = "Fatal"
    /\ exitCode = 1

\* ----------------------------------------------------------------- C17
\* C17 (what a whole file holds): from an absent checkpoint file, whenever
\* the file has the length of one record its update_counter is a positive
\* multiple of K; a restored run calls no save before its K-th work unit and
\* calls its first save right after it, with the restored counter plus K.
FullFileCounter ==
    /\ Len(file) = RecLen =>
          /\ Deserialize(file).update_counter > 0
          /\ Deserialize(file).update_counter % K = 0
    /\ outcome = "Restored" =>
          /\ unitsRun < K => saveLog = << >>
          /\ saveLog # << >> => saveLog[1] = restored.update_counter + K
          /\ (Len(saveLog) = 1 /\ pc = "save_open") => unitsRun = K

\* A restored run at the entry of its first save.
FullFileCounterWitness ==
    /\ outcome = "Restored"
    /\ pc = "save_open"
    /\ unitsRun = K
    /\ saveLog = << restored.update_counter + K >>
    /\ Len(file) = RecLen
    /\ Deserialize(file).update_counter = restored.update_counter

\* ----------------------------------------------------------------- C18
\* C18 as stated (a Fatal startup stays Fatal): after a startup has ended
\* Fatal, every later startup ends Fatal.  (Stated for a machine that stays
\* up and loads that open the file.)
FatalStaysFatalAsStated ==
    (fatalKind # "no" /\ outcome # "none") => outcome = "Fatal"

\* C18 (load_checkpoint leaves the file alone): no step of load_checkpoint
\* changes the file or what is on disk, whatever the outcome; the file
\* changes only inside a save's open and write or by a machine crash, so
\* restarts that end before a save leave it as it was; and after a startup
\* that ended Fatal on a file shorter than one record, every later startup
\* ends Fatal with exit code 1 on the same short file, for as long as the
\* machine stays up and load_checkpoint can open the file.
LoadLeavesFile ==
    /\ [][(LoadOpen \/ LoadRead) => (file' = file /\ disk' = disk)]_vars
    /\ [][file' # file
             => (pc \in {"save_open", "save_write"} \/ MachineCrash)]_vars
    /\ []((fatalKind \in {"short", "short_again"} /\ outcome # "none")
             => /\ outcome = "Fatal"
                /\ pc = "exited"
                /\ exitCode = 1
                /\ Len(file) < RecLen)

\* The second of two startups in a row that ended Fatal on the short file.
LoadLeavesFileWitness ==
    /\ fatalKind = "short_again"
    /\ outcome = "Fatal"
    /\ exitCode = 1
    /\ Exists(file)
    /\ Len(file) < RecLen

====
